---- MODULE Spec2Model ----
(***************************************************************************)
(* A model of the gin XSS middleware of package xss: the Defender and its  *)
(* options, the request path (RemoveXSS -> XssRemove -> one codec per      *)
(* content type), the response path (FilterXSS -> BuildNewBody) and the    *)
(* hand-written JSON encoder (ConstructJson, buildJsonApplyPolicy,         *)
(* unravelSlice).                                                          *)
(*                                                                         *)
(* A byte string is a sequence of tokens, each token a run of bytes that   *)
(* the code never splits: a structural byte such as "{" or ",", a plain    *)
(* character, a field name, or Markup, one HTML tag.  A bytes.Buffer is    *)
(* such a sequence; WriteString and WriteByte append to it.                *)
(***************************************************************************)
EXTENDS Integers, Sequences, FiniteSets, TLC

\* ------------------------------------------------------------------ bytes

Markup == "<b>"
DQ == "\""
BS == "\\"
CRLF == "\r\n"

RECURSIVE Flatten(_)
\* The concatenation of a sequence of byte strings.
Flatten(ss) == IF ss = <<>> THEN <<>> ELSE Head(ss) \o Flatten(Tail(ss))

\* Every a followed by every b: the buffers two set-valued writes can leave.
Cat(A, B) == {a \o b : a \in A, b \in B}

\* strings.Contains(s, sub)
Contains(s, sub) ==
    \E i \in 0..(Len(s) - Len(sub)) : SubSeq(s, i + 1, i + Len(sub)) = sub

\* Field names in byte order: fmt prints a map's keys, and url.Values.Encode
\* writes its keys, in sorted order.
KeyOrder == <<"", "a", "bio", "id", "password", "q", "token">>

SortedKeys(S) == SelectSeq(KeyOrder, LAMBDA k : k \in S)

\* bytes.Buffer.Truncate(n): keeps the first n bytes (n = 0 resets the buffer).
Truncate(buff, n) == SubSeq(buff, 1, n)

\* ------------------------------------------------- the sanitize capability

\* bluemonday on one token: the strict policy drops every tag, the UGC policy
\* keeps a plain formatting tag; both escape a double quote in text.
SanitizeTok(policy, c) ==
    IF c = Markup THEN (IF policy = "strict" THEN <<>> ELSE <<c>>)
    ELSE IF c = DQ THEN <<"&#34;">>
    ELSE <<c>>

\* policy.Sanitize(s)
Sanitize(policy, s) == Flatten([i \in 1..Len(s) |-> SanitizeTok(policy, s[i])])

\* --------------------------------------------------------- the value model

\* What encoding/json decodes into with UseNumber: nil, bool, json.Number,
\* string, []interface{} and map[string]interface{}.
Null == [k |-> "null", v |-> <<>>]
Bool(text) == [k |-> "bool", v |-> <<text>>]
Num(text) == [k |-> "num", v |-> <<text>>]
Str(s) == [k |-> "str", v |-> s]
Arr(a) == [k |-> "arr", v |-> a]
Obj(m) == [k |-> "obj", v |-> m]

\* strconv.Quote on one token, as fmt's %q applies it.
QuoteTok(c) == IF c = DQ THEN <<BS, DQ>> ELSE IF c = BS THEN <<BS, BS>> ELSE <<c>>

\* fmt.Sprintf("%q", s) of a string s.
Quote(s) == <<DQ>> \o Flatten([i \in 1..Len(s) |-> QuoteTok(s[i])]) \o <<DQ>>

RECURSIVE JoinSp(_)
\* fmt separates the elements of a slice or a map by one space.
JoinSp(ss) ==
    IF ss = <<>> THEN <<>>
    ELSE IF Len(ss) = 1 THEN ss[1]
    ELSE ss[1] \o <<" ">> \o JoinSp(Tail(ss))

RECURSIVE FmtQ(_, _)
\* fmt.Sprintf("%q", v) of a decoded value v (depth 0), and fmt's printValue
\* of a value inside a slice or a map (depth > 0).
FmtQ(val, depth) ==
    CASE val.k = "str" -> Quote(val.v)
      [] val.k = "num" -> Quote(val.v)
      [] val.k = "bool" -> <<"%!q(bool=" \o val.v[1] \o ")">>
      [] val.k = "null" -> IF depth = 0 THEN <<"%!q(<nil>)">> ELSE <<"<nil>">>
      [] val.k = "arr" ->
            <<"[">> \o JoinSp([i \in 1..Len(val.v) |-> FmtQ(val.v[i], depth + 1)])
                    \o <<"]">>
      [] val.k = "obj" ->
            LET ks == SortedKeys(DOMAIN val.v)
            IN <<"map[">>
               \o JoinSp([i \in 1..Len(ks) |->
                            Quote(<<ks[i]>>) \o <<":">> \o FmtQ(val.v[ks[i]], depth + 1)])
               \o <<"]">>

\* ------------------------------------------------------- the JSON encoder

\* The loop over p.skipFields in ConstructJson and HandleXFormEncoded.
IsSkipField(p, key) == \E i \in 1..Len(p.skipFields) : p.skipFields[i] = key

RECURSIVE ConstructJson(_, _)
RECURSIVE ConstructEntries(_, _, _)
RECURSIVE buildJsonApplyPolicy(_, _, _)
RECURSIVE unravelSlice(_, _, _)
RECURSIVE unravelItems(_, _, _, _)

\* One pass of ConstructJson's loop body: the key, then the value verbatim
\* (%q) for a skip field, else what buildJsonApplyPolicy writes.
ConstructEntry(p, mp, key) ==
    Cat({<<DQ, key, DQ, ":">>},
        IF IsSkipField(p, key)
        THEN {FmtQ(mp[key], 0) \o <<",">>}
        ELSE buildJsonApplyPolicy(p, mp[key], p.policy))

\* The loop of ConstructJson over the keys left, in every order: Go ranges
\* over a map in an unspecified order.
ConstructEntries(p, mp, keys) ==
    IF keys = {} THEN {<<>>}
    ELSE UNION {Cat(ConstructEntry(p, mp, key), ConstructEntries(p, mp, keys \ {key}))
                  : key \in keys}

\* The buffers ConstructJson can return for the map mp.
ConstructJson(p, mp) ==
    {LET buff == <<"{">> \o body
     IN Truncate(buff, Len(buff) - 1) \o <<"}">>
       : body \in ConstructEntries(p, mp, DOMAIN mp)}

buildJsonApplyPolicy(p, interf, policy) ==
    CASE interf.k = "obj" -> Cat(ConstructJson(p, interf.v), {<<",">>})
      [] interf.k = "arr" -> Cat(unravelSlice(p, interf.v, policy), {<<",">>})
      [] interf.k = "num" -> {Sanitize(policy, interf.v) \o <<",">>}
      [] interf.k = "str" -> {Quote(Sanitize(policy, interf.v)) \o <<",">>}
      [] interf.k = "null" -> {<<"null", ",">>}
      [] OTHER -> {Sanitize(policy, interf.v) \o <<",">>}

\* One pass of unravelSlice's loop body: only a map and a string have a case.
unravelItem(p, item, policy) ==
    CASE item.k = "obj" -> Cat(ConstructJson(p, item.v), {<<",">>})
      [] item.k = "str" -> {Quote(Sanitize(policy, item.v)) \o <<",">>}
      [] OTHER -> {<<>>}

unravelItems(p, ss, policy, i) ==
    IF i > Len(ss) THEN {<<>>}
    ELSE Cat(unravelItem(p, ss[i], policy), unravelItems(p, ss, policy, i + 1))

unravelSlice(p, ss, policy) ==
    {LET buff == <<"[">> \o body
     IN Truncate(buff, Len(buff) - 1) \o <<"]">>
       : body \in unravelItems(p, ss, policy, 1)}

RECURSIVE multiRecItems(_, _, _)
\* The loop of jsonToStringMap over a top-level array of objects.
multiRecItems(p, jbt, i) ==
    IF i > Len(jbt) THEN {<<>>}
    ELSE Cat(Cat(ConstructJson(p, jbt[i].v), {<<",">>}), multiRecItems(p, jbt, i + 1))

\* The results jsonToStringMap can return: a buffer and an error; the type
\* assertion n.(map[string]interface{}) panics on an element that is no map.
jsonToStringMap(p, jsonBod) ==
    CASE jsonBod.k = "obj" ->
            {[buff |-> b, err |-> "nil"] : b \in ConstructJson(p, jsonBod.v)}
      [] jsonBod.k = "arr" ->
            IF \E i \in 1..Len(jsonBod.v) : jsonBod.v[i].k # "obj"
            THEN {[buff |-> <<>>, err |-> "panic"]}
            ELSE {LET multiRec == <<"[">> \o body
                  IN [buff |-> Truncate(multiRec, Len(multiRec) - 1) \o <<"]">>,
                      err |-> "nil"]
                    : body \in multiRecItems(p, jsonBod.v, 1)}
      [] OTHER -> {[buff |-> <<>>, err |-> "Unknown Content Type Received"]}

\* ------------------------------------------------------- the JSON decoder

NumToks == {"5", "1.50"}

ParseFail == [ok |-> FALSE, val |-> Null, next |-> 0]
ParseOk(val, next) == [ok |-> TRUE, val |-> val, next |-> next]

RECURSIVE parseString(_, _, _)
\* The string literal whose opening quote is before position i.
parseString(b, i, acc) ==
    IF i > Len(b) THEN ParseFail
    ELSE IF b[i] = DQ THEN ParseOk(Str(acc), i + 1)
    ELSE IF b[i] = BS
         THEN IF i + 1 <= Len(b) /\ b[i + 1] \in {DQ, BS}
              THEN parseString(b, i + 2, Append(acc, b[i + 1]))
              ELSE ParseFail
    ELSE parseString(b, i + 1, Append(acc, b[i]))

RECURSIVE parseValue(_, _)
RECURSIVE parseMembers(_, _, _)
RECURSIVE parseElements(_, _, _)

\* The members of an object from position i on, m the members read so far;
\* a repeated key keeps its last value.
parseMembers(b, i, m) ==
    IF i + 3 > Len(b) \/ b[i] # DQ \/ b[i + 1] \in {DQ, BS} \/ b[i + 2] # DQ
       \/ b[i + 3] # ":"
    THEN ParseFail
    ELSE LET key == b[i + 1]
             r == parseValue(b, i + 4)
             m2 == [x \in DOMAIN m \cup {key} |-> IF x = key THEN r.val ELSE m[x]]
         IN IF ~r.ok \/ r.next > Len(b) THEN ParseFail
            ELSE IF b[r.next] = "}" THEN ParseOk(Obj(m2), r.next + 1)
            ELSE IF b[r.next] = "," THEN parseMembers(b, r.next + 1, m2)
            ELSE ParseFail

parseElements(b, i, a) ==
    LET r == parseValue(b, i)
    IN IF ~r.ok \/ r.next > Len(b) THEN ParseFail
       ELSE IF b[r.next] = "]" THEN ParseOk(Arr(Append(a, r.val)), r.next + 1)
       ELSE IF b[r.next] = "," THEN parseElements(b, r.next + 1, Append(a, r.val))
       ELSE ParseFail

parseValue(b, i) ==
    IF i > Len(b) THEN ParseFail
    ELSE IF b[i] = "{"
         THEN IF i + 1 <= Len(b) /\ b[i + 1] = "}" THEN ParseOk(Obj(<<>>), i + 2)
              ELSE parseMembers(b, i + 1, <<>>)
    ELSE IF b[i] = "["
         THEN IF i + 1 <= Len(b) /\ b[i + 1] = "]" THEN ParseOk(Arr(<<>>), i + 2)
              ELSE parseElements(b, i + 1, <<>>)
    ELSE IF b[i] = DQ THEN parseString(b, i + 1, <<>>)
    ELSE IF b[i] = "null" THEN ParseOk(Null, i + 1)
    ELSE IF b[i] \in {"true", "false"} THEN ParseOk(Bool(b[i]), i + 1)
    ELSE IF b[i] \in NumToks THEN ParseOk(Num(b[i]), i + 1)
    ELSE ParseFail

\* decodeJson: the first JSON value of the stream (json.Decoder.Decode reads
\* one value and leaves what follows it), or errNotJson.
decodeJson(content) ==
    LET r == parseValue(content, 1)
    IN IF r.ok THEN [val |-> r.val, err |-> "nil"]
       ELSE [val |-> Null, err |-> "errNotJson"]

\* ------------------------------------------------------------ net/url

BadEscape == "%zz"

\* url.QueryEscape on one token.
QueryEscapeTok(c) ==
    CASE c = Markup -> "%3Cb%3E"
      [] c = DQ -> "%22"
      [] c = "&#34;" -> "%26%2334%3B"
      [] c = " " -> "+"
      [] OTHER -> c

\* url.QueryUnescape on one token.
QueryUnescapeTok(c) ==
    CASE c = "%3Cb%3E" -> Markup
      [] c = "%22" -> DQ
      [] c = "%26%2334%3B" -> "&#34;"
      [] c = "+" -> " "
      [] OTHER -> c

QueryEscape(s) == [i \in 1..Len(s) |-> QueryEscapeTok(s[i])]

\* url.QueryUnescape: the text, or an error on a malformed percent escape.
QueryUnescape(s) ==
    IF \E i \in 1..Len(s) : s[i] = BadEscape
    THEN [s |-> <<>>, err |-> "invalid URL escape"]
    ELSE [s |-> [i \in 1..Len(s) |-> QueryUnescapeTok(s[i])], err |-> "nil"]

RECURSIVE StrCat(_)
\* The Go string a run of tokens spells: a map key.
StrCat(ts) == IF ts = <<>> THEN "" ELSE Head(ts) \o StrCat(Tail(ts))

\* What WriteString(k) appends: nothing for the empty string.
Bytes(k) == IF k = "" THEN <<>> ELSE <<k>>

RECURSIVE Split(_, _, _)
\* The segments of s between the separator tokens; cur is the segment being read.
Split(s, sep, cur) ==
    IF s = <<>> THEN <<cur>>
    ELSE IF Head(s) = sep THEN <<cur>> \o Split(Tail(s), sep, <<>>)
    ELSE Split(Tail(s), sep, Append(cur, Head(s)))

\* strings.Cut(seg, "="): the key before the first "=", the value after it.
CutEq(seg) ==
    IF \E i \in 1..Len(seg) : seg[i] = "="
    THEN LET i == CHOOSE j \in 1..Len(seg) :
                     seg[j] = "=" /\ \A h \in 1..(j - 1) : seg[h] # "="
         IN [key |-> SubSeq(seg, 1, i - 1), value |-> SubSeq(seg, i + 1, Len(seg))]
    ELSE [key |-> seg, value |-> <<>>]

RECURSIVE parseQuerySegs(_, _, _)
\* url.parseQuery over the segments left: m maps each key to its values in
\* order, err is the first error met; a pair that fails to unescape is left out.
parseQuerySegs(segs, m, err) ==
    IF segs = <<>> THEN [m |-> m, err |-> err]
    ELSE LET c == CutEq(Head(segs))
             uk == QueryUnescape(c.key)
             uv == QueryUnescape(c.value)
             key == StrCat(uk.s)
             bad == IF uk.err # "nil" THEN uk.err ELSE uv.err
             old == IF key \in DOMAIN m THEN m[key] ELSE <<>>
         IN IF Head(segs) = <<>> THEN parseQuerySegs(Tail(segs), m, err)
            ELSE IF bad # "nil"
                 THEN parseQuerySegs(Tail(segs), m, IF err = "nil" THEN bad ELSE err)
            ELSE parseQuerySegs(Tail(segs),
                                [x \in DOMAIN m \cup {key} |->
                                    IF x = key THEN Append(old, uv.s) ELSE m[x]],
                                err)

\* url.ParseQuery(query)
ParseQuery(query) == parseQuerySegs(Split(query, "&", <<>>), <<>>, "nil")

RECURSIVE encodeKey(_, _, _)
\* The pairs url.Values.Encode writes for one key.
encodeKey(key, vs, i) ==
    IF i > Len(vs) THEN <<>>
    ELSE <<QueryEscape(Bytes(key)) \o <<"=">> \o QueryEscape(vs[i])>>
         \o encodeKey(key, vs, i + 1)

RECURSIVE JoinBy(_, _)
JoinBy(ss, sep) ==
    IF ss = <<>> THEN <<>>
    ELSE IF Len(ss) = 1 THEN ss[1]
    ELSE ss[1] \o <<sep>> \o JoinBy(Tail(ss), sep)

\* url.Values.Encode: keys sorted, one key=value per value, joined by "&".
Encode(values) ==
    LET ks == SortedKeys(DOMAIN values)
    IN JoinBy(Flatten([i \in 1..Len(ks) |-> encodeKey(ks[i], values[ks[i]], 1)]), "&")

\* ------------------------------------------------------------ the Defender

\* An Option is a closure over its argument; calling it writes one field.
SetSkipFields(ss) == [op |-> "SetSkipFields", ss |-> ss, policy |-> ""]
SetPolicy(policy) == [op |-> "SetPolicy", ss |-> <<>>, policy |-> policy]

\* option(res)
ApplyOption(option, res) ==
    IF option.op = "SetSkipFields" THEN [res EXCEPT !.skipFields = option.ss]
    ELSE [res EXCEPT !.policy = option.policy]

RECURSIVE ApplyOptions(_, _, _)
ApplyOptions(options, i, res) ==
    IF i > Len(options) THEN res
    ELSE ApplyOptions(options, i + 1, ApplyOption(options[i], res))

NewDefender(policy, options) ==
    ApplyOptions(options, 1, [skipFields |-> <<>>, policy |-> policy])

\* DefaultDefender with its own option put before the caller's.
DefaultDefender_OwnOptionFirst(options) ==
    NewDefender("strict", <<SetSkipFields(<<"password">>)>> \o options)

DefaultDefender(options) ==
    NewDefender("strict", Append(options, SetSkipFields(<<"password">>)))

\* ------------------------------------------------------ the request codecs

MaxParts == 100

CtJson == <<"application/json">>
CtForm == <<"application/x-www-form-urlencoded">>
CtMultipart == <<"multipart/form-data">>

\* HandleJson: the body the handler will read, or the error returned.  The
\* decoder has read c.Request.Body (a body shorter than its read buffer is
\* read whole), and only the success path sets a new one.
HandleJson(p, r) ==
    LET d == decodeJson(r.body)
        drained == [r EXCEPT !.body = <<>>]
    IN IF d.err # "nil" THEN {[req |-> drained, err |-> d.err]}
       ELSE {[req |-> IF res.err = "nil" THEN [r EXCEPT !.body = res.buff]
                      ELSE drained,
              err |-> res.err] : res \in jsonToStringMap(p, d.val)}

\* The loop body reading the last value of the key, not the first.
FormEntry_LastValue(p, m, key) ==
    Bytes(key) \o <<"=">>
    \o QueryEscape(IF IsSkipField(p, key) THEN m[key][Len(m[key])]
                   ELSE Sanitize(p.policy, m[key][Len(m[key])]))
    \o <<"&">>

\* One pass of HandleXFormEncoded's loop body: the key as parsed, then the
\* first value, sanitized unless the key is a skip field, percent-encoded.
FormEntry(p, m, key) ==
    Bytes(key) \o <<"=">>
    \o QueryEscape(IF IsSkipField(p, key) THEN m[key][1]
                   ELSE Sanitize(p.policy, m[key][1]))
    \o <<"&">>

RECURSIVE FormEntries(_, _, _)
\* The loop of HandleXFormEncoded over the keys left, in every map order.
FormEntries(p, m, keys) ==
    IF keys = {} THEN {<<>>}
    ELSE UNION {Cat({FormEntry(p, m, key)}, FormEntries(p, m, keys \ {key}))
                  : key \in keys}

\* HandleXFormEncoded: a server request's Body is never nil, so the body is
\* always read into buf and parsed; when it does not parse, the body stays
\* read.
HandleXFormEncoded(p, r) ==
    LET pq == ParseQuery(r.body)
    IN IF pq.err # "nil" THEN {[req |-> [r EXCEPT !.body = <<>>], err |-> pq.err]}
       ELSE {[req |-> [r EXCEPT !.body = IF Len(bq) > 1
                                          THEN Truncate(bq, Len(bq) - 1)
                                          ELSE r.body],
              err |-> "nil"] : bq \in FormEntries(p, pq.m, DOMAIN pq.m)}

\* reqContentType[strings.Index(reqContentType, "boundary=")+9:], for a
\* content type that names its boundary.
Boundary(reqContentType) ==
    LET i == CHOOSE j \in 1..Len(reqContentType) : reqContentType[j] = "boundary="
    IN SubSeq(reqContentType, i + 1, Len(reqContentType))

\* What HandleMultiPartFormData writes for one part: the delimiter line, the
\* headers, then the payload: a file's as read, a field's through a fresh
\* bluemonday.StrictPolicy() unless the field is named "password".
MultipartEntry(boundary, part) ==
    <<"--">> \o boundary \o <<CRLF>>
    \o IF part.fileName # ""
       THEN <<"Content-Disposition: form-data; name=\"", part.formName, "\"; ",
              "filename=\"", part.fileName, "\";\r\n",
              "Content-Type: ",
              IF part.contentType = "" THEN "application/octet-stream"
              ELSE part.contentType,
              "\r\n\r\n">>
            \o part.data \o <<CRLF>>
       ELSE <<"Content-Disposition: form-data; name=\"", part.formName,
              "\";\r\n\r\n">>
            \o (IF part.formName = "password" THEN part.data
                ELSE Sanitize("strict", part.data))
            \o <<CRLF>>

RECURSIVE multipartLoop(_, _, _, _)
\* The loop of HandleMultiPartFormData from part i on: at most MaxParts parts
\* are read; a part that cannot be copied, or that is empty, is an error.
multipartLoop(boundary, parts, i, multiPrtFrm) ==
    IF i > Len(parts) \/ i > MaxParts
    THEN [buff |-> multiPrtFrm, err |-> "nil", read |-> i - 1]
    ELSE IF parts[i].copyErr
         THEN [buff |-> multiPrtFrm, err |-> "copy error", read |-> i]
    ELSE IF Len(parts[i].data) <= 0
         THEN [buff |-> multiPrtFrm, err |-> "error recreating Multipart form Request",
               read |-> i]
    ELSE multipartLoop(boundary, parts, i + 1,
                       multiPrtFrm \o MultipartEntry(boundary, parts[i]))

\* HandleMultiPartFormData: r.parts are the parts reader.NextPart yields
\* before its first error (the end of the body or a malformed part).  On an
\* error the body stays read as far as the reader came: the part that failed
\* and all before it, and as much of the parts behind it as the reader's
\* buffer had taken from the connection.
HandleMultiPartFormData(p, r, reqContentType) ==
    LET boundary == Boundary(reqContentType)
        res == multipartLoop(boundary, r.parts, 1, <<>>)
    IN IF res.err # "nil"
       THEN {[req |-> [r EXCEPT !.parts = SubSeq(r.parts, n + 1, Len(r.parts))],
              err |-> res.err] : n \in res.read..Len(r.parts)}
       ELSE {[req |-> [r EXCEPT !.body = res.buff \o <<"--">> \o boundary
                                         \o <<"--\r\n">>,
                                !.parts = <<>>],
              err |-> "nil"]}

\* What HandleGETRequest can leave under one key: a skip field keeps its
\* values; any other key is deleted and Set once per value, so that the last
\* Set stands.  A key deleted and set again while the map is ranged over may
\* be visited a second time.
RewrittenValues(p, items, key) ==
    IF IsSkipField(p, key) THEN {items}
    ELSE LET last == Sanitize(p.policy, items[Len(items)])
         IN {<<last>>, <<Sanitize(p.policy, last)>>}

\* The query parameters HandleGETRequest can end with.
RewrittenQuery(p, rawQuery) ==
    LET queryParams == ParseQuery(rawQuery).m
    IN {f \in [DOMAIN queryParams ->
                 UNION {RewrittenValues(p, queryParams[key], key)
                          : key \in DOMAIN queryParams}] :
          \A key \in DOMAIN queryParams :
              f[key] \in RewrittenValues(p, queryParams[key], key)}

HandleGETRequest(p, r) ==
    {[req |-> [r EXCEPT !.rawQuery = Encode(queryParams)], err |-> "nil"]
       : queryParams \in RewrittenQuery(p, r.rawQuery)}

\* The codec XssRemove's switch picks for a request.
Route(r) ==
    IF r.method \in {"POST", "PUT", "PATCH"}
    THEN IF r.contentLength > 1 /\ r.contentType = CtJson THEN "json"
         ELSE IF r.contentType = CtForm THEN "form"
         ELSE IF Contains(r.contentType, CtMultipart) THEN "multipart"
         ELSE "none"
    ELSE IF r.method = "GET" THEN "query"
    ELSE "none"

\* XssRemove: the request as rewritten and the error returned ("panic" when
\* the codec panics instead of returning).
XssRemove(p, r) ==
    CASE Route(r) = "json" -> HandleJson(p, r)
      [] Route(r) = "form" -> HandleXFormEncoded(p, r)
      [] Route(r) = "multipart" -> HandleMultiPartFormData(p, r, r.contentType)
      [] Route(r) = "query" -> HandleGETRequest(p, r)
      [] OTHER -> {[req |-> r, err |-> "nil"]}

\* BuildNewBody: decode, then encode.
BuildNewBody(p, body) ==
    LET d == decodeJson(body)
    IN IF d.err # "nil" THEN {[buff |-> <<>>, err |-> d.err]}
       ELSE jsonToStringMap(p, d.val)

\* BodyWriter.Write: the bytes go to the buffer, none to the connection.
Write(w, b) == [w EXCEPT !.body = w.body \o b]

\* BodyWriter.WriteString is the method of the embedded gin.ResponseWriter:
\* the header is sent and the bytes go to the connection, past the buffer.
WriteString(w, s) == [w EXCEPT !.written = w.written \o s, !.wroteHeader = TRUE]

\* BodyWriter.WriteHeaderNow, of the embedded gin.ResponseWriter as well: the
\* status line and the headers are sent; the buffer is not.
WriteHeaderNow(w) == [w EXCEPT !.wroteHeader = TRUE]

\* BodyWriter.Flush, of the embedded gin.ResponseWriter: WriteHeaderNow, then
\* the connection is flushed; the buffer is not.
Flush(w) == WriteHeaderNow(w)

\* ------------------------------------------------------------- the inputs

MaxOptions == 2
MaxElems == 2
MaxPairs == 3

\* The sequences over S of length at most n.
SeqsUpTo(S, n) == UNION {[1..m -> S] : m \in 0..n}

\* The options a caller passes to DefaultDefender or NewDefender.
OptionChoices == {SetSkipFields(<<"token", "bio">>), SetPolicy("ugc")}
OptionLists == SeqsUpTo(OptionChoices, MaxOptions)

RECURSIVE JsonText(_)
\* The JSON text of a value as a client writes it, keys in sorted order.
JsonText(val) ==
    CASE val.k = "str" -> Quote(val.v)
      [] val.k = "arr" ->
            <<"[">> \o JoinBy([i \in 1..Len(val.v) |-> JsonText(val.v[i])], ",")
                    \o <<"]">>
      [] val.k = "obj" ->
            LET ks == SortedKeys(DOMAIN val.v)
            IN <<"{">>
               \o JoinBy([i \in 1..Len(ks) |->
                            <<DQ, ks[i], DQ, ":">> \o JsonText(val.v[ks[i]])], ",")
               \o <<"}">>
      [] val.k = "null" -> <<"null">>
      [] OTHER -> val.v

Scalars ==
    {Null, Bool("true"), Num("1.50"), Str(<<"a">>), Str(<<Markup, "a">>), Str(<<DQ>>)}

ArrayElems ==
    {Num("5"), Str(<<Markup, "a">>), Obj([a |-> Str(<<Markup>>)]),
     Arr(<<Str(<<Markup>>)>>)}

InnerObjects ==
    {Obj(<<>>), Obj([bio |-> Str(<<Markup>>)]), Obj([password |-> Str(<<Markup>>)])}

Values ==
    Scalars \cup InnerObjects \cup {Arr(a) : a \in SeqsUpTo(ArrayElems, MaxElems)}

\* The documents a body can hold: objects of one and two keys, arrays of
\* objects, an array with an element that is no object, and a bare scalar.
Documents ==
    {Obj(<<>>), Num("5")}
    \cup {Obj(key :> val) : key \in {"a", "bio", "password"}, val \in Values}
    \cup {Obj(("a" :> x) @@ ("password" :> y)) :
            x \in {Str(<<Markup, "a">>), Num("5")}, y \in {Str(<<Markup>>), Num("5")}}
    \cup {Arr(a) : a \in SeqsUpTo({Obj([a |-> Str(<<Markup>>)]), Obj(<<>>), Num("5")},
                                  MaxElems)}

\* JSON bodies: the documents, an empty body and a truncated one.
JsonBodies == {JsonText(d) : d \in Documents} \cup {<<>>, <<"{">>}

\* key=value pairs of a form body or a query string, as the client sends them.
Pairs ==
    {<<"q", "=", "a">>, <<"q", "=", "%3Cb%3E", "a">>,
     <<"password", "=", "%3Cb%3E">>, <<"bio", "=", "%3Cb%3E">>}

QueryStrings ==
    {JoinBy(ps, "&") : ps \in SeqsUpTo(Pairs, MaxPairs)}
    \cup {<<"q", "=", BadEscape>>, <<"q", "=", "a", "&">>}

FilePart(formName, fileName, contentType, data) ==
    [formName |-> formName, fileName |-> fileName, contentType |-> contentType,
     data |-> data, copyErr |-> FALSE]

FieldPart(formName, data) == FilePart(formName, "", "", data)

Parts ==
    {FieldPart("bio", <<Markup, "a">>), FieldPart("password", <<Markup>>),
     FieldPart("token", <<Markup>>), FieldPart("bio", <<>>),
     FilePart("f", "a.txt", "", <<Markup, "a">>),
     [FilePart("f", "a.txt", "text/html", <<Markup>>) EXCEPT !.copyErr = TRUE]}

Request(method, contentType, contentLength, body, parts, rawQuery) ==
    [method |-> method, contentType |-> contentType, contentLength |-> contentLength,
     body |-> body, parts |-> parts, rawQuery |-> rawQuery]

NoRequest == Request("", <<>>, 0, <<>>, <<>>, <<>>)

\* The requests a client sends.
Requests ==
    {Request("POST", CtJson, 2, body, <<>>, <<>>) : body \in JsonBodies}
    \cup {Request(method, contentType, contentLength, JsonText(Obj([a |-> Str(<<Markup>>)])),
                  <<>>, <<>>) :
            method \in {"PUT", "PATCH", "DELETE"},
            contentType \in {CtJson, CtJson \o <<"; charset=utf-8">>},
            contentLength \in {1, 2}}
    \cup {Request("POST", CtForm, Len(body), body, <<>>, <<>>) : body \in QueryStrings}
    \cup {Request("POST", CtMultipart \o <<"; ", "boundary=", "XYZ">>, 2, <<>>, parts, <<>>) :
            parts \in SeqsUpTo(Parts, MaxElems)}
    \cup {Request("GET", <<>>, 0, <<>>, <<>>, rawQuery) : rawQuery \in QueryStrings}

\* A call of the handler on ctx.Writer.
CallWrite(b) == [method |-> "Write", data |-> b]
CallWriteString(s) == [method |-> "WriteString", data |-> s]
CallFlush == [method |-> "Flush", data |-> <<>>]
CallWriteHeaderNow == [method |-> "WriteHeaderNow", data |-> <<>>]

\* The calls a handler makes on ctx.Writer: none, one, or two of two kinds.
HandlerCalls ==
    {<<>>}
    \cup {<<call>> : call \in {CallWrite(<<"a", Markup>>),
                               CallWrite(JsonText(Obj([a |-> Str(<<Markup>>)]))),
                               CallWriteString(<<"a", Markup>>),
                               CallWriteString(JsonText(Obj([a |-> Str(<<Markup>>)])))}}
    \cup {<<CallWrite(<<"a">>), CallWriteString(<<Markup>>)>>,
          <<CallWriteString(<<"a">>), CallWrite(<<Markup>>)>>,
          <<CallWrite(<<"{">>), CallFlush>>,
          <<CallWriteHeaderNow, CallWrite(<<"a", Markup>>)>>,
          <<CallFlush>>}

\* What the downstream handler does: a content type, a status, its calls.
HandlerOutputs ==
    {[calls |-> <<CallWrite(body)>>, contentType |-> CtJson, status |-> 200] :
       body \in JsonBodies}
    \cup {[calls |-> calls, contentType |-> contentType, status |-> status] :
            calls \in HandlerCalls,
            contentType \in {<<>>, <<"text/plain">>, CtJson \o <<"; charset=utf-8">>},
            status \in {200, 404}}

\* The routes of the application: the plain GET serves every output above,
\* every other request is answered with a JSON document or with nothing.
PlainGet == Request("GET", <<>>, 0, <<>>, <<>>, <<>>)
Acknowledgements ==
    {[calls |-> <<CallWrite(JsonText(Obj([a |-> Str(<<Markup>>)])))>>,
      contentType |-> CtJson, status |-> 200],
     [calls |-> <<>>, contentType |-> <<>>, status |-> 404]}
HandlerOutputsFor(r) == IF r = PlainGet THEN HandlerOutputs ELSE Acknowledgements

RECURSIVE Serve(_, _)
\* The handler's calls, applied in order to the writer.
Serve(w, calls) ==
    IF calls = <<>> THEN w
    ELSE Serve(CASE Head(calls).method = "Write" -> Write(w, Head(calls).data)
                 [] Head(calls).method = "WriteString" ->
                       WriteString(w, Head(calls).data)
                 [] Head(calls).method = "Flush" -> Flush(w)
                 [] OTHER -> WriteHeaderNow(w),
               Tail(calls))

\* All the bytes the handler wrote, in the order it wrote them.
BytesOf(calls) == Flatten([i \in 1..Len(calls) |-> calls[i].data])

\* -------------------------------------------------------------- the state

VARIABLES
    pc,          \* where the pipeline stands
    ctor,        \* the constructor the Defender was built with
    options,     \* the options the caller passed to it
    defender,    \* the Defender: skipFields and policy
    received,    \* the request as the client sent it
    request,     \* c.Request: body and RawQuery as rewritten so far
    xssErr,      \* what XssRemove returned
    aborted,     \* ctx.Abort was called
    handlerRan,  \* the downstream handler was executed
    handlerOut,  \* the bytes the handler wrote
    wbody,       \* BodyWriter.body
    header,      \* the response's content-type header
    status,      \* the response status
    written,     \* the bytes written to the underlying response writer
    wroteHeader, \* the status line and the headers were sent
    filterIn,    \* the bytes BuildNewBody was called on
    filterOut,   \* the buffer BuildNewBody returned
    filterErr,   \* the error BuildNewBody returned
    codecCalls   \* how often FilterXSS called BuildNewBody

vars == <<pc, ctor, options, defender, received, request, xssErr, aborted, handlerRan,
          handlerOut, wbody, header, status, written, wroteHeader, filterIn,
          filterOut, filterErr, codecCalls>>

StatusFatal == 500

\* The per-request state before a request is received.
Idle ==
    /\ received' = NoRequest
    /\ request' = NoRequest
    /\ xssErr' = "pending"
    /\ aborted' = FALSE
    /\ handlerRan' = FALSE
    /\ handlerOut' = <<>>
    /\ wbody' = <<>>
    /\ header' = <<>>
    /\ status' = 200
    /\ written' = <<>>
    /\ wroteHeader' = FALSE
    /\ filterIn' = <<>>
    /\ filterOut' = <<>>
    /\ filterErr' = "pending"
    /\ codecCalls' = 0

Init ==
    /\ pc = "start"
    /\ ctor = ""
    /\ options = <<>>
    /\ defender = [skipFields |-> <<>>, policy |-> ""]
    /\ received = NoRequest
    /\ request = NoRequest
    /\ xssErr = "pending"
    /\ aborted = FALSE
    /\ handlerRan = FALSE
    /\ handlerOut = <<>>
    /\ wbody = <<>>
    /\ header = <<>>
    /\ status = 200
    /\ written = <<>>
    /\ wroteHeader = FALSE
    /\ filterIn = <<>>
    /\ filterOut = <<>>
    /\ filterErr = "pending"
    /\ codecCalls = 0

\* xss.DefaultDefender(opts...)
CallDefaultDefender ==
    /\ pc = "start"
    /\ \E opts \in OptionLists :
          /\ options' = opts
          /\ defender' = DefaultDefender(opts)
    /\ ctor' = "DefaultDefender"
    /\ pc' = "idle"
    /\ Idle

\* xss.NewDefender(bluemonday.StrictPolicy(), opts...)
CallNewDefender ==
    /\ pc = "start"
    /\ \E opts \in OptionLists :
          /\ options' = opts
          /\ defender' = NewDefender("strict", opts)
    /\ ctor' = "NewDefender"
    /\ pc' = "idle"
    /\ Idle

\* A request reaches the engine, which runs FilterXSS, RemoveXSS and the handler.
Receive ==
    /\ pc = "idle"
    /\ \E r \in Requests :
          /\ received' = r
          /\ request' = r
    /\ pc' = "FilterXSS"
    /\ UNCHANGED <<ctor, options, defender, xssErr, aborted, handlerRan, handlerOut,
                   wbody, header, status, written, wroteHeader, filterIn, filterOut,
                   filterErr, codecCalls>>

\* FilterXSS up to ctx.Next(): the writer is wrapped in a BodyWriter.
FilterXSSBefore ==
    /\ pc = "FilterXSS"
    /\ wbody' = <<>>
    /\ pc' = "RemoveXSS"
    /\ UNCHANGED <<ctor, options, defender, received, request, xssErr, aborted,
                   handlerRan, handlerOut, header, status, written, wroteHeader,
                   filterIn, filterOut, filterErr, codecCalls>>

\* removeXSS: XssRemove, then ctx.Abort() on an error, else ctx.Next().  A
\* panic of the codec unwinds through both middlewares.
removeXSS ==
    /\ pc = "RemoveXSS"
    /\ \E res \in XssRemove(defender, request) :
          /\ xssErr' = res.err
          /\ request' = res.req
          /\ aborted' = (res.err \notin {"nil", "panic"})
          /\ pc' = IF res.err = "panic" THEN "panicked"
                   ELSE IF res.err # "nil" THEN "FilterXSSAfter"
                   ELSE "handler"
    /\ UNCHANGED <<ctor, options, defender, received, handlerRan, handlerOut, wbody,
                   header, status, written, wroteHeader, filterIn, filterOut,
                   filterErr, codecCalls>>

\* The downstream handler, run by ctx.Next(): it sets the content type and
\* the status and writes its body by calls on ctx.Writer, the BodyWriter.
Handler ==
    /\ pc = "handler"
    /\ \E out \in HandlerOutputsFor(received) :
          LET w == Serve([body |-> wbody, written |-> written,
                          wroteHeader |-> wroteHeader], out.calls)
          IN /\ wbody' = w.body
             /\ written' = w.written
             /\ wroteHeader' = w.wroteHeader
             /\ handlerOut' = BytesOf(out.calls)
             /\ header' = out.contentType
             /\ status' = out.status
    /\ handlerRan' = TRUE
    /\ pc' = "FilterXSSAfter"
    /\ UNCHANGED <<ctor, options, defender, received, request, xssErr, aborted,
                   filterIn, filterOut, filterErr, codecCalls>>

\* FilterXSS after ctx.Next() returns: a response that is not JSON is written
\* as it is; a JSON response is decoded (which reads the buffer) and encoded,
\* and written if that succeeds, else the context is aborted with status 500,
\* which is the status sent unless the header was sent before.
FilterXSS ==
    /\ pc = "FilterXSSAfter"
    /\ wbody' = <<>>
    /\ IF ~Contains(header, CtJson)
       THEN /\ written' = written \o wbody
            /\ wroteHeader' = TRUE
            /\ pc' = "done"
            /\ UNCHANGED <<status, aborted, filterIn, filterOut, filterErr, codecCalls>>
       ELSE \E res \in BuildNewBody(defender, wbody) :
               /\ codecCalls' = codecCalls + 1
               /\ filterIn' = wbody
               /\ filterOut' = res.buff
               /\ filterErr' = res.err
               /\ IF res.err = "panic"
                  THEN /\ pc' = "panicked"
                       /\ UNCHANGED <<written, wroteHeader, status, aborted>>
                  ELSE IF res.err # "nil"
                  THEN /\ status' = IF wroteHeader THEN status ELSE StatusFatal
                       /\ wroteHeader' = TRUE
                       /\ aborted' = TRUE
                       /\ pc' = "done"
                       /\ UNCHANGED written
                  ELSE /\ written' = written \o res.buff
                       /\ wroteHeader' = TRUE
                       /\ pc' = "done"
                       /\ UNCHANGED <<status, aborted>>
    /\ UNCHANGED <<ctor, options, defender, received, request, xssErr, handlerRan,
                   handlerOut, header>>

\* The engine is ready for the next request; the Defender is kept.
ServeNext ==
    /\ pc \in {"done", "panicked"}
    /\ pc' = "idle"
    /\ Idle
    /\ UNCHANGED <<ctor, options, defender>>

Next ==
    \/ CallDefaultDefender
    \/ CallNewDefender
    \/ Receive
    \/ FilterXSSBefore
    \/ removeXSS
    \/ Handler
    \/ FilterXSS
    \/ ServeNext

Spec == Init /\ [][Next]_vars

\* ------------------------------------------------------------- the claims

SkipSet(p) == {p.skipFields[i] : i \in 1..Len(p.skipFields)}

\* The JSON codec has run and returned a buffer: on the request path
\* (HandleJson) or on the response path (BuildNewBody).
CodecRan ==
    \/ pc = "handler" /\ Route(received) = "json"
    \/ pc = "done" /\ filterErr = "nil"

\* The bytes it decoded, the value it decoded them into, the bytes it returned.
CodecIn == IF pc = "handler" THEN received.body ELSE filterIn
CodecValue == decodeJson(CodecIn).val
CodecOut == IF pc = "handler" THEN request.body ELSE filterOut

\* C1: a codec error aborts the pipeline.  On the request path the handler
\* runs only after XssRemove returned nil, and after an error the context is
\* aborted and the handler never runs; on the response path a failure of
\* BuildNewBody (only called for a JSON content type) ends with status 500
\* and no byte written to the underlying response writer.
C1_CodecErrorAborts ==
    /\ handlerRan => xssErr = "nil"
    /\ pc = "handler" => xssErr = "nil"
    /\ xssErr \notin {"pending", "nil"} => ~handlerRan
    /\ xssErr \notin {"pending", "nil", "panic"} => aborted
    /\ filterErr \notin {"pending", "nil", "panic"} =>
          /\ pc = "done"
          /\ Contains(header, CtJson)
          /\ aborted
          /\ status = StatusFatal
          /\ written = <<>>

\* What holds of the pipeline after a codec error.  On the request path the
\* context is aborted, the handler never runs and the body that failed stays
\* read; on the response path the context is aborted and FilterXSS itself
\* writes nothing: what the underlying writer holds is what the handler
\* passed it through WriteString, and the status is 500 unless the handler
\* had the header sent (WriteString, Flush, WriteHeaderNow) with its own.
CodecErrorAbortsFilter ==
    /\ handlerRan => xssErr = "nil"
    /\ pc = "handler" => xssErr = "nil"
    /\ xssErr \notin {"pending", "nil"} =>
          /\ ~handlerRan
          /\ Route(received) \in {"json", "form"} => request.body = <<>>
    /\ xssErr \notin {"pending", "nil", "panic"} => aborted
    /\ filterErr \notin {"pending", "nil", "panic"} =>
          /\ pc = "done"
          /\ Contains(header, CtJson)
          /\ aborted
          /\ wbody = <<>>
          /\ handlerOut = filterIn \/ written # <<>>
          /\ status # StatusFatal =>
                \E out \in HandlerOutputsFor(received) :
                    /\ handlerOut = BytesOf(out.calls)
                    /\ status = out.status
                    /\ Serve([body |-> <<>>, written |-> <<>>, wroteHeader |-> FALSE],
                             out.calls).wroteHeader

RECURSIVE HasSkippedKey(_, _)
\* Some object of the value, at any depth, has a key of the skip-field set.
HasSkippedKey(p, val) ==
    CASE val.k = "obj" ->
            \E key \in DOMAIN val.v :
                key \in SkipSet(p) \/ HasSkippedKey(p, val.v[key])
      [] val.k = "arr" -> \E i \in 1..Len(val.v) : HasSkippedKey(p, val.v[i])
      [] OTHER -> FALSE

RECURSIVE SanitizeLeaves(_, _)
\* The value with every string leaf replaced by its Sanitize, all else kept.
SanitizeLeaves(policy, val) ==
    CASE val.k = "str" -> Str(Sanitize(policy, val.v))
      [] val.k = "arr" -> Arr([i \in 1..Len(val.v) |-> SanitizeLeaves(policy, val.v[i])])
      [] val.k = "obj" ->
            Obj([key \in DOMAIN val.v |-> SanitizeLeaves(policy, val.v[key])])
      [] OTHER -> val

RECURSIVE HasEmptyContainer(_)
\* The value is, or holds at some depth, an object or an array with no entry.
HasEmptyContainer(val) ==
    CASE val.k = "obj" ->
            DOMAIN val.v = {} \/ \E key \in DOMAIN val.v : HasEmptyContainer(val.v[key])
      [] val.k = "arr" ->
            val.v = <<>> \/ \E i \in 1..Len(val.v) : HasEmptyContainer(val.v[i])
      [] OTHER -> FALSE

\* C2: for a JSON object with no skipped key, the encoder's output is the
\* JSON text of the same tree (same keys, same array lengths, non-string
\* leaves unchanged, array elements included) with every string leaf
\* replaced by its Sanitize.  Stated for the objects that hold no empty
\* object or array, which C4 is about.
C2_StructurePreserved ==
    (CodecRan /\ CodecValue.k = "obj" /\ ~HasSkippedKey(defender, CodecValue)
       /\ ~HasEmptyContainer(CodecValue)) =>
        LET d == decodeJson(CodecOut)
        IN /\ d.err = "nil"
           /\ d.val = SanitizeLeaves(defender.policy, CodecValue)

KeyPrefix(key) == <<DQ, key, DQ, ":">>

RECURSIVE ClaimedFragments(_, _, _)
\* What C3 as stated expects in the output, for the objects of a value at
\* every depth: under a skip key the quoted string as it is, under any other
\* key (directly, or as an element of the key's array) the quoted Sanitize.
ClaimedFragments(p, val, underSkip) ==
    CASE val.k = "obj" ->
            UNION {(IF val.v[key].k = "str"
                    THEN {KeyPrefix(key)
                          \o Quote(IF key \in SkipSet(p) THEN val.v[key].v
                                   ELSE Sanitize(p.policy, val.v[key].v))}
                    ELSE {})
                   \cup ClaimedFragments(p, val.v[key], key \in SkipSet(p))
                     : key \in DOMAIN val.v}
      [] val.k = "arr" ->
            UNION {(IF val.v[i].k = "str" /\ ~underSkip
                    THEN {Quote(Sanitize(p.policy, val.v[i].v))}
                    ELSE {})
                   \cup ClaimedFragments(p, val.v[i], underSkip)
                     : i \in 1..Len(val.v)}
      [] OTHER -> {}

\* C3: in every object of the document, at any nesting depth, a skip key's
\* string value is emitted verbatim as a quoted literal, and every string
\* value under a key that is not a skip key is emitted sanitized.
C3_SkipVerbatimElseSanitized ==
    CodecRan =>
        \A f \in ClaimedFragments(defender, CodecValue, FALSE) : Contains(CodecOut, f)

RECURSIVE EncodedFragments(_, _)
\* The same for the objects ConstructJson is called on: the document, the
\* objects of a top-level array, and from there the object values of keys
\* that are not skip keys and the object elements of their arrays.
EncodedFragments(p, val) ==
    CASE val.k = "obj" ->
            UNION {LET x == val.v[key]
                   IN IF key \in SkipSet(p)
                      THEN (IF x.k = "str" THEN {KeyPrefix(key) \o Quote(x.v)} ELSE {})
                      ELSE CASE x.k = "str" ->
                                    {KeyPrefix(key) \o Quote(Sanitize(p.policy, x.v))}
                             [] x.k = "obj" -> EncodedFragments(p, x)
                             [] x.k = "arr" ->
                                    UNION {CASE x.v[i].k = "str" ->
                                                   {Quote(Sanitize(p.policy, x.v[i].v))}
                                             [] x.v[i].k = "obj" ->
                                                   EncodedFragments(p, x.v[i])
                                             [] OTHER -> {}
                                             : i \in 1..Len(x.v)}
                             [] OTHER -> {}
                     : key \in DOMAIN val.v}
      [] val.k = "arr" ->
            UNION {EncodedFragments(p, val.v[i]) : i \in 1..Len(val.v)}
      [] OTHER -> {}

\* What holds of C3: in every object ConstructJson is called on, a skip
\* key's string value is emitted verbatim as a quoted literal, and the string
\* value of any other key, and each string element of its array, is emitted
\* sanitized.
SkipVerbatimWhereEncoded ==
    CodecRan =>
        \A f \in EncodedFragments(defender, CodecValue) : Contains(CodecOut, f)

RECURSIVE TopLevelCommas(_, _, _)
\* The "," bytes of a JSON text that separate the entries of its outermost
\* bracket pair.
TopLevelCommas(b, i, depth) ==
    IF i > Len(b) THEN 0
    ELSE IF b[i] \in {"{", "[", "map["} THEN TopLevelCommas(b, i + 1, depth + 1)
    ELSE IF b[i] \in {"}", "]"} THEN TopLevelCommas(b, i + 1, depth - 1)
    ELSE (IF b[i] = "," /\ depth = 1 THEN 1 ELSE 0) + TopLevelCommas(b, i + 1, depth)

\* C4: an object of n keys is encoded as "{", n entries separated by ","
\* with no trailing separator, and "}"; the empty object, top-level or
\* nested, as exactly "{}".
C4_ObjectBrackets ==
    (CodecRan /\ CodecValue.k = "obj") =>
        LET n == Cardinality(DOMAIN CodecValue.v)
            out == CodecOut
        IN /\ Len(out) >= 2
           /\ out[1] = "{"
           /\ out[Len(out)] = "}"
           /\ out[Len(out) - 1] # ","
           /\ n = 0 => out = <<"{", "}">>
           /\ n > 0 => TopLevelCommas(out, 1, 0) = n - 1
           /\ \A key \in DOMAIN CodecValue.v :
                 (key \notin SkipSet(defender) /\ CodecValue.v[key] = Obj(<<>>)) =>
                     Contains(out, KeyPrefix(key) \o <<"{", "}">>)

\* C5: HandleGETRequest keeps every key and every value of the query: the
\* values of a skip key as they are, the values of any other key each
\* replaced by its Sanitize, in order.
C5_QueryValuesPreserved ==
    (pc = "handler" /\ Route(received) = "query") =>
        LET m == ParseQuery(received.rawQuery).m
            out == ParseQuery(request.rawQuery).m
        IN /\ DOMAIN out = DOMAIN m
           /\ \A key \in DOMAIN m :
                 out[key] = IF key \in SkipSet(defender) THEN m[key]
                            ELSE [i \in 1..Len(m[key]) |->
                                    Sanitize(defender.policy, m[key][i])]

RECURSIVE Payloads(_, _, _)
\* The payloads of a multipart body in order: what stands between the blank
\* line that ends a part's headers and the line break that ends the part.
Payloads(b, i, cur) ==
    IF i > Len(b) THEN <<>>
    ELSE IF cur = <<"out">>
         THEN IF b[i] \in {"\r\n\r\n", "\";\r\n\r\n"}
              THEN Payloads(b, i + 1, <<"in">>)
              ELSE Payloads(b, i + 1, cur)
    ELSE IF b[i] = CRLF THEN <<Tail(cur)>> \o Payloads(b, i + 1, <<"out">>)
    ELSE Payloads(b, i + 1, Append(cur, b[i]))

\* C6: the multipart codec sanitizes a part's payload exactly when the part
\* is a field whose name is neither "password" nor in the skip-field set;
\* every other payload is emitted as read; the parts keep their order.
C6_MultipartSkipsFields ==
    (pc = "handler" /\ Route(received) = "multipart") =>
        Payloads(request.body, 1, <<"out">>)
          = [i \in 1..Len(received.parts) |->
               LET part == received.parts[i]
               IN IF part.fileName = "" /\ part.formName # "password"
                     /\ part.formName \notin SkipSet(defender)
                  THEN Sanitize("strict", part.data)
                  ELSE part.data]

\* C7: the form codec writes one key=value pair per key of the parsed body,
\* from the key's first value: as it is for a skip key, else sanitized, in
\* both cases percent-encoded; the pairs are joined by "&" with none at the
\* end; a body with no key is left as it was.
C7_FormFirstValue ==
    (pc = "handler" /\ Route(received) = "form") =>
        LET m == ParseQuery(received.body).m
            out == request.body
            back == ParseQuery(out)
        IN IF DOMAIN m = {} THEN out = received.body
           ELSE /\ out # <<>>
                /\ out[Len(out)] # "&"
                /\ Cardinality({i \in 1..Len(out) : out[i] = "&"})
                     = Cardinality(DOMAIN m) - 1
                /\ Len(Split(out, "&", <<>>)) = Cardinality(DOMAIN m)
                /\ {Split(out, "&", <<>>)[i] : i \in 1..Cardinality(DOMAIN m)}
                     = {Bytes(key) \o <<"=">>
                        \o QueryEscape(IF key \in SkipSet(defender) THEN m[key][1]
                                       ELSE Sanitize(defender.policy, m[key][1]))
                          : key \in DOMAIN m}
                /\ back.err = "nil"
                /\ DOMAIN back.m = DOMAIN m
                /\ \A key \in DOMAIN m :
                      back.m[key] = <<IF key \in SkipSet(defender) THEN m[key][1]
                                      ELSE Sanitize(defender.policy, m[key][1])>>

\* A form with a key sent twice and a skip key, all holding markup.
C7_Witness ==
    /\ pc = "handler"
    /\ Route(received) = "form"
    /\ "password" \in SkipSet(defender)
    /\ defender.policy = "strict"
    /\ received.body = <<"q", "=", "%3Cb%3E", "a", "&", "q", "=", "a", "&",
                         "password", "=", "%3Cb%3E">>
    /\ request.body \in {<<"q", "=", "a", "&", "password", "=", "%3Cb%3E">>,
                         <<"password", "=", "%3Cb%3E", "&", "q", "=", "a">>}

\* C8: a response whose content type does not contain application/json is
\* written to the underlying writer byte for byte as the handler wrote it,
\* and BuildNewBody is not called.
C8_NonJsonPassThrough ==
    (pc = "done" /\ ~Contains(header, CtJson)) =>
        /\ written = handlerOut
        /\ codecCalls = 0
        /\ filterErr = "pending"

\* What holds of a response that is not JSON: BuildNewBody is not called, and
\* the bytes the handler passed to Write reach the underlying writer as they
\* are, behind the bytes it passed to WriteString.
NonJsonBufferPassesThrough ==
    (pc = "done" /\ ~Contains(header, CtJson)) =>
        /\ codecCalls = 0
        /\ filterErr = "pending"
        /\ wbody = <<>>
        /\ \E out \in HandlerOutputsFor(received) :
              LET w == Serve([body |-> <<>>, written |-> <<>>, wroteHeader |-> FALSE],
                             out.calls)
              IN /\ handlerOut = BytesOf(out.calls)
                 /\ written = w.written \o w.body

\* C9: decoding and encoding the codec's own output again can give back that
\* output byte for byte (the encoder may take the key order it took before).
C9_RoundTripIdempotent ==
    CodecRan =>
        \E again \in BuildNewBody(defender, CodecOut) :
            again.err = "nil" /\ again.buff = CodecOut

\* C10: a Defender built by DefaultDefender skips exactly "password",
\* whatever options the caller passed, before and after every request.
C10_DefaultSkipsPassword ==
    (pc # "start" /\ ctor = "DefaultDefender") => defender.skipFields = <<"password">>

\* The caller asked for other skip fields, and a request was handled.
C10_Witness ==
    /\ pc = "done"
    /\ ctor = "DefaultDefender"
    /\ \E i \in 1..Len(options) : options[i] = SetSkipFields(<<"token", "bio">>)
    /\ defender.skipFields = <<"password">>
    /\ handlerRan

====
